---- MODULE Spec2Model ----
(***************************************************************************)
(* Model of pkg/templates/machinecontroller/helper.go (machine-controller  *)
(* orchestration: Ensure, WaitReady, DeleteAllMachines) and of the e2e     *)
(* terraform provisioners (AWS, DigitalOcean, Hetzner) kept in the same    *)
(* source file.                                                            *)
(*                                                                         *)
(* One behaviour is one invocation of one operation.  Every call to an     *)
(* external collaborator (cluster client List/Delete, Deploy,              *)
(* WaitForWebhook, executeCommand, time.Sleep, the wait.Poll ticker) is    *)
(* one step whose answer is chosen nondeterministically.                   *)
(***************************************************************************)
EXTENDS Integers, Sequences, FiniteSets, TLC

VARIABLES
    op,         \* the operation invoked ("none" before the call)
    pc,         \* position inside the operation
    ctx,        \* *util.Context: [Deploy, DynamicClient]
    calls,      \* collaborator calls issued so far, in order: <<name, kind, object>>
    rets,       \* the error each call of `calls` returned ("": nil), in the same order
    lists,      \* per kind: the answer to the cascade's List call of that kind
    items,      \* items of the current list still to be ranged over
    ticks,      \* poll intervals elapsed since wait.Poll was entered
    pollLists,  \* Machine List calls made by the poll condition
    nonZeroPolls, \* those of them that answered with a non-zero count
    lastPoll,   \* answer to the latest poll List: "none", "err" or "ok"
    lastCount,  \* len(list.Items) of the latest successful poll List
    closed,     \* the poller's channel was closed (timeout elapsed)
    p,          \* the Provisioner: [variant, testPath, terraformDir, idendifier]
    env,        \* process environment as read by os.Getenv
    cmds,       \* executeCommand invocations so far: [dir, name, args, err]
    outs,       \* the output each invocation of `cmds` returned, in the same order
    insts,      \* concurrent Provisioner instances: [variant, testPath, terraformDir,
                \* idendifier, pc]
    touched,    \* per concurrent instance: the resources its subprocesses accessed
    output,     \* string returned by Provision
    result      \* error returned: [ret, ok, msg, cause]

vars == <<op, pc, ctx, calls, rets, lists, items, ticks, pollLists, nonZeroPolls,
          lastPoll, lastCount, closed, p, env, cmds, outs, insts, touched, output,
          result>>

-----------------------------------------------------------------------------
(* Bounds *)

\* Largest number of items a List call answers with.
MaxObjs == 2

Objs == 1..MaxObjs

-----------------------------------------------------------------------------
(* Errors *)

\* Error classes the cluster client may answer with.
ClientErrors == {"NoKindMatch", "Timeout", "ServerTimeout", "Forbidden"}

\* Errors a subprocess run by executeCommand may end with.
CmdErrors == {"exit status 1", "exit status 2"}

\* Outputs a successful subprocess may print.
CmdOutputs == {"{}", "{\"kubeone_api\":{}}"}

NoResult == [ret |-> FALSE, ok |-> FALSE, msg |-> "", cause |-> ""]

\* return nil
Nil == [ret |-> TRUE, ok |-> TRUE, msg |-> "", cause |-> ""]

\* errors.New(msg)
New(msg) == [ret |-> TRUE, ok |-> FALSE, msg |-> msg, cause |-> ""]

\* errors.Wrap(err, msg), fmt.Errorf(msg + ": %v", err): the message names the
\* stage, the cause carries the wrapped error.
Wrap(err, msg) == [ret |-> TRUE, ok |-> FALSE, msg |-> msg, cause |-> err]

\* An error returned unwrapped (wait.ErrWaitTimeout out of wait.Poll).
Bare(err) == [ret |-> TRUE, ok |-> FALSE, msg |-> "", cause |-> err]

\* errorsutil.IsTimeout
IsTimeout(err) == err = "Timeout"

\* errorsutil.IsServerTimeout
IsServerTimeout(err) == err = "ServerTimeout"

-----------------------------------------------------------------------------
(* Cluster client answers *)

Kinds == {"MachineDeployment", "MachineSet", "Machine"}

\* Item lists a List call may answer with: n items, each named by its
\* position in the list.
ItemLists == {[i \in 1..n |-> i] : n \in 0..MaxObjs}

NotListed == [done |-> FALSE, err |-> "", items |-> <<>>]
Listed(its) == [done |-> TRUE, err |-> "", items |-> its]
ListFailed(e) == [done |-> TRUE, err |-> e, items |-> <<>>]

ListCall(k) == <<"List", k, 0>>
DeleteCall(k, o) == <<"Delete", k, o>>

\* Two Provisioner instances that run side by side.
Instances == {1, 2}

NotConstructed ==
    [variant |-> "none", testPath |-> "", terraformDir |-> "", idendifier |-> "",
     pc |-> "none"]

-----------------------------------------------------------------------------
Init ==
    /\ op = "none"
    /\ pc = "idle"
    /\ ctx = [Deploy |-> FALSE, DynamicClient |-> "nil"]
    /\ calls = <<>>
    /\ rets = <<>>
    /\ lists = [k \in Kinds |-> NotListed]
    /\ items = <<>>
    /\ ticks = 0
    /\ pollLists = 0
    /\ nonZeroPolls = 0
    /\ lastPoll = "none"
    /\ lastCount = 0
    /\ closed = FALSE
    /\ p = [variant |-> "none", testPath |-> "", terraformDir |-> "", idendifier |-> ""]
    /\ env = [v \in {} |-> ""]
    /\ cmds = <<>>
    /\ outs = <<>>
    /\ insts = [i \in Instances |-> NotConstructed]
    /\ touched = [i \in Instances |-> {}]
    /\ output = ""
    /\ result = NoResult

Contexts == [Deploy : BOOLEAN, DynamicClient : {"nil", "client"}]

\* return err
Return(r) ==
    /\ pc' = "done"
    /\ result' = r

cascadeVars == <<lists, items, ticks, pollLists, nonZeroPolls, lastPoll, lastCount,
                 closed>>
concVars == <<insts, touched>>
provVars == <<p, env, cmds, outs, output, concVars>>

-----------------------------------------------------------------------------
(* DeleteAllMachines *)

\* Lines 84-90: the feature flag is looked at before the client.
DeleteAllMachinesPrecheckNoClientCheck(c) ==
    IF ~c.Deploy THEN "skip" ELSE "run"
DeleteAllMachinesPrecheckClientFirst(c) ==
    IF c.DynamicClient = "nil" THEN "notinit"
    ELSE IF ~c.Deploy THEN "skip"
    ELSE "run"
DeleteAllMachinesPrecheck(c) ==
    IF ~c.Deploy THEN "skip"
    ELSE IF c.DynamicClient = "nil" THEN "notinit"
    ELSE "run"

DeleteAllMachines ==
    /\ pc = "idle"
    /\ op' = "DeleteAllMachines"
    /\ \E c \in Contexts :
        /\ ctx' = c
        /\ CASE DeleteAllMachinesPrecheck(c) = "skip" -> Return(Nil)
             [] DeleteAllMachinesPrecheck(c) = "notinit" ->
                    Return(New("kubernetes client not initialized"))
             [] OTHER -> pc' = "listMD" /\ UNCHANGED result
    /\ UNCHANGED <<calls, rets, cascadeVars, provVars>>

\* Lines 96-102: of the errors of the MachineDeployment List only a timeout
\* or a server timeout is returned; any other error is logged as "CRD is not
\* deployed" and the function returns nil.
MDListErrorIsFatalTimeoutOnly(err) == IsTimeout(err)
MDListErrorIsFatalAlways(err) == TRUE
MDListErrorIsFatal(err) == IsTimeout(err) \/ IsServerTimeout(err)

\* The statement that follows the range loop over the items of kind k
\* (pc label of the next List, or the poll).
StageAfterMachinesFirst(k) ==
    CASE k = "MachineDeployment" -> "listM"
      [] k = "Machine" -> "listMS"
      [] k = "MachineSet" -> "poll"
StageAfter(k) ==
    CASE k = "MachineDeployment" -> "listMS"
      [] k = "MachineSet" -> "listM"
      [] k = "Machine" -> "poll"

\* pc label of the range loop body of kind k.
DeleteStageCopyPaste(k) ==
    CASE k = "MachineDeployment" -> "delMD"
      [] k = "MachineSet" -> "delMD"
      [] k = "Machine" -> "delM"
DeleteStage(k) ==
    CASE k = "MachineDeployment" -> "delMD"
      [] k = "MachineSet" -> "delMS"
      [] k = "Machine" -> "delM"

\* for _, obj := range list.Items: the body runs while items remain.
RangeOver(k, its) == IF its = <<>> THEN StageAfter(k) ELSE DeleteStage(k)

\* Lines 95-102
ListMachineDeployments ==
    /\ pc = "listMD"
    /\ calls' = Append(calls, ListCall("MachineDeployment"))
    /\ \/ \E e \in ClientErrors :
            /\ rets' = Append(rets, e)
            /\ lists' = [lists EXCEPT !["MachineDeployment"] = ListFailed(e)]
            /\ IF MDListErrorIsFatal(e)
               THEN Return(Wrap(e, "unable to list machinedeployment objects"))
               ELSE Return(Nil)
            /\ UNCHANGED items
       \/ \E its \in ItemLists :
            /\ rets' = Append(rets, "")
            /\ lists' = [lists EXCEPT !["MachineDeployment"] = Listed(its)]
            /\ items' = its
            /\ pc' = RangeOver("MachineDeployment", its)
            /\ UNCHANGED result
    /\ UNCHANGED <<op, ctx, ticks, pollLists, nonZeroPolls, lastPoll, lastCount, closed,
                   provVars>>

\* A List whose every error is returned wrapped (lines 110-113, 121-124).
ListOrFail(k, msg) ==
    /\ calls' = Append(calls, ListCall(k))
    /\ \/ \E e \in ClientErrors :
            /\ rets' = Append(rets, e)
            /\ lists' = [lists EXCEPT ![k] = ListFailed(e)]
            /\ Return(Wrap(e, msg))
            /\ UNCHANGED items
       \/ \E its \in ItemLists :
            /\ rets' = Append(rets, "")
            /\ lists' = [lists EXCEPT ![k] = Listed(its)]
            /\ items' = its
            /\ pc' = RangeOver(k, its)
            /\ UNCHANGED result
    /\ UNCHANGED <<op, ctx, ticks, pollLists, nonZeroPolls, lastPoll, lastCount, closed,
                   provVars>>

\* One iteration of a range loop: Delete the next item; an error is returned
\* wrapped at once, otherwise the loop goes on (lines 103-107, 114-118,
\* 125-129).
DeleteOrFailContinue(k, msg) ==
    /\ items # <<>>
    /\ calls' = Append(calls, DeleteCall(k, Head(items)))
    /\ \E e \in ClientErrors \cup {""} : rets' = Append(rets, e)
    /\ items' = Tail(items)
    /\ pc' = RangeOver(k, Tail(items))
    /\ UNCHANGED <<op, ctx, lists, ticks, pollLists, nonZeroPolls, lastPoll, lastCount,
                   closed, provVars, result>>
DeleteOrFail(k, msg) ==
    /\ items # <<>>
    /\ calls' = Append(calls, DeleteCall(k, Head(items)))
    /\ \/ \E e \in ClientErrors :
            /\ rets' = Append(rets, e)
            /\ Return(Wrap(e, msg))
            /\ UNCHANGED items
       \/ /\ rets' = Append(rets, "")
          /\ items' = Tail(items)
          /\ pc' = RangeOver(k, Tail(items))
          /\ UNCHANGED result
    /\ UNCHANGED <<op, ctx, lists, ticks, pollLists, nonZeroPolls, lastPoll, lastCount,
                   closed, provVars>>

\* Lines 103-107
DeleteMachineDeployment ==
    /\ pc = "delMD"
    /\ DeleteOrFail("MachineDeployment", "unable to delete machinedeployment object")

\* Lines 110-113
ListMachineSets ==
    /\ pc = "listMS"
    /\ ListOrFail("MachineSet", "unable to list machineset objects")

\* Lines 114-118
DeleteMachineSet ==
    /\ pc = "delMS"
    /\ DeleteOrFail("MachineSet", "unable to delete machineset object")

\* Lines 121-124
ListMachines ==
    /\ pc = "listM"
    /\ ListOrFail("Machine", "unable to list machine objects")

\* Lines 125-129
DeleteMachine ==
    /\ pc = "delM"
    /\ DeleteOrFail("Machine", "unable to delete machine object")

-----------------------------------------------------------------------------
(* wait.Poll(5*time.Second, 3*time.Minute, condition), lines 132-141 *)

\* Poll interval and timeout, in seconds.
PollInterval == 5
PollTimeoutFiveMinutes == 5 * 60
PollTimeout == 180

\* Ticks the poller's ticker fires before the timeout closes the channel.
MaxTicks == PollTimeout \div PollInterval

\* wait.ErrWaitTimeout
ErrWaitTimeout == "timed out waiting for the condition"

\* Answers of the condition's List call: an error or a number of items.
PollAnswers ==
    [err : ClientErrors, n : {0}] \cup [err : {""}, n : 0..MaxObjs]

\* wait.Poll waits one interval before every run of the condition, the first
\* included (wait.PollImmediate would not); n is the number of runs so far.
IntervalsBeforeCheckImmediate(n) == IF n = 0 THEN 0 ELSE 1
IntervalsBeforeCheck(n) == 1

\* What one run of the condition makes wait.Poll return (NoResult: go on
\* waiting).  The condition (lines 133-140) answers (false, err) on a List
\* error, (false, nil) while items remain, (true, nil) on an empty list;
\* wait.WaitFor returns err, nil on true, and ErrWaitTimeout once the channel
\* is closed and the condition is still false.
PollOutcomeInverted(a, open) ==
    IF a.err # "" THEN Wrap(a.err, "unable to list machine objects")
    ELSE IF a.n # 0 THEN Nil
    ELSE IF ~open THEN Bare(ErrWaitTimeout)
    ELSE NoResult
PollOutcomeRetryOnError(a, open) ==
    IF a.err = "" /\ a.n = 0 THEN Nil
    ELSE IF ~open THEN Bare(ErrWaitTimeout)
    ELSE NoResult
PollOutcomeNilOnTimeout(a, open) ==
    IF a.err # "" THEN Wrap(a.err, "unable to list machine objects")
    ELSE IF a.n = 0 THEN Nil
    ELSE IF ~open THEN Nil
    ELSE NoResult
PollOutcome(a, open) ==
    IF a.err # "" THEN Wrap(a.err, "unable to list machine objects")
    ELSE IF a.n = 0 THEN Nil
    ELSE IF ~open THEN Bare(ErrWaitTimeout)
    ELSE NoResult

\* The condition runs: one Machine List and the decision taken on it.
RunCondition(open) ==
    /\ pollLists' = pollLists + 1
    /\ \E a \in PollAnswers :
        /\ lastPoll' = IF a.err # "" THEN "err" ELSE "ok"
        /\ lastCount' = a.n
        /\ nonZeroPolls' = IF a.n # 0 THEN nonZeroPolls + 1 ELSE nonZeroPolls
        /\ result' = PollOutcome(a, open)
        /\ pc' = IF PollOutcome(a, open).ret THEN "done" ELSE "poll"

\* The ticker fires while the consumer waits on the channel: the condition
\* runs.
PollTick ==
    /\ pc = "poll"
    /\ ~closed
    /\ ticks < MaxTicks
    /\ ticks' = ticks + IntervalsBeforeCheck(pollLists)
    /\ RunCondition(TRUE)
    /\ UNCHANGED <<op, ctx, calls, rets, lists, items, closed, provVars>>

\* The ticker fires while the condition of the previous tick is still
\* running (or loses the race against the timeout): the tick is dropped.
PollSkip ==
    /\ pc = "poll"
    /\ ~closed
    /\ pollLists >= 1
    /\ ticks < MaxTicks
    /\ ticks' = ticks + 1
    /\ UNCHANGED <<op, pc, ctx, calls, rets, lists, items, pollLists, nonZeroPolls,
                   lastPoll, lastCount, closed, provVars, result>>

\* The timeout elapses: the poller closes the channel, the condition runs a
\* last time.
PollClose ==
    /\ pc = "poll"
    /\ ~closed
    /\ ticks = MaxTicks
    /\ closed' = TRUE
    /\ RunCondition(FALSE)
    /\ UNCHANGED <<op, ctx, calls, rets, lists, items, ticks, provVars>>

-----------------------------------------------------------------------------
(* Ensure and WaitReady *)

\* Errors the deploy and readiness collaborators may return.
CollabErrors == {"Forbidden", "timed out waiting for the condition"}

\* time.Sleep(10 * time.Second), in seconds.
SettleDelay == 10

Collab(name) == <<name, "", 0>>
SleepCall(seconds) == <<"Sleep", "", seconds>>

\* ctx.Cluster.MachineController.Deploy, the gate of lines 43 and 63.
FeatureEnabled(c) == c.Deploy

\* A collaborator is called; its error is returned wrapped, otherwise the
\* function goes on at `next` ("done": return nil).
CallCollabContinueOnError(name, msg, next) ==
    /\ calls' = Append(calls, Collab(name))
    /\ \E e \in CollabErrors \cup {""} : rets' = Append(rets, e)
    /\ IF next = "done" THEN Return(Nil) ELSE pc' = next /\ UNCHANGED result
    /\ UNCHANGED <<op, ctx, cascadeVars, provVars>>
CallCollabNilOnError(name, msg, next) ==
    /\ calls' = Append(calls, Collab(name))
    /\ \/ \E e \in CollabErrors :
            /\ rets' = Append(rets, e)
            /\ Return(Nil)
       \/ /\ rets' = Append(rets, "")
          /\ IF next = "done" THEN Return(Nil) ELSE pc' = next /\ UNCHANGED result
    /\ UNCHANGED <<op, ctx, cascadeVars, provVars>>
CallCollab(name, msg, next) ==
    /\ calls' = Append(calls, Collab(name))
    /\ \/ \E e \in CollabErrors :
            /\ rets' = Append(rets, e)
            /\ Return(Wrap(e, msg))
       \/ /\ rets' = Append(rets, "")
          /\ IF next = "done" THEN Return(Nil) ELSE pc' = next /\ UNCHANGED result
    /\ UNCHANGED <<op, ctx, cascadeVars, provVars>>

\* Lines 42-46
Ensure ==
    /\ pc = "idle"
    /\ op' = "Ensure"
    /\ \E c \in Contexts :
        /\ ctx' = c
        /\ IF ~FeatureEnabled(c) THEN Return(Nil)
           ELSE pc' = "Deploy" /\ UNCHANGED result
    /\ UNCHANGED <<calls, rets, cascadeVars, provVars>>

\* Lines 48-51
Deploy ==
    /\ pc = "Deploy"
    /\ CallCollab("Deploy", "failed to deploy machine-controller",
                  "DeployWebhookConfiguration")

\* Lines 53-58
DeployWebhookConfiguration ==
    /\ pc = "DeployWebhookConfiguration"
    /\ CallCollab("DeployWebhookConfiguration",
                  "failed to deploy machine-controller webhook configuration",
                  "done")

\* Lines 62-65
WaitReady ==
    /\ pc = "idle"
    /\ op' = "WaitReady"
    /\ \E c \in Contexts :
        /\ ctx' = c
        /\ IF ~FeatureEnabled(c) THEN Return(Nil)
           ELSE pc' = "Sleep" /\ UNCHANGED result
    /\ UNCHANGED <<calls, rets, cascadeVars, provVars>>

\* Line 70
Sleep ==
    /\ pc = "Sleep"
    /\ calls' = Append(calls, SleepCall(SettleDelay))
    /\ rets' = Append(rets, "")
    /\ pc' = "WaitForWebhook"
    /\ UNCHANGED <<op, ctx, cascadeVars, provVars, result>>

\* Lines 72-74
WaitForWebhook ==
    /\ pc = "WaitForWebhook"
    /\ CallCollab("WaitForWebhook", "machine-controller-webhook did not come up",
                  "WaitForMachineController")

\* Lines 76-79
WaitForMachineController ==
    /\ pc = "WaitForMachineController"
    /\ CallCollab("WaitForMachineController", "machine-controller did not come up",
                  "done")

-----------------------------------------------------------------------------
(* Provisioners *)

AWS == "aws"
DigitalOcean == "digitalocean"
Hetzner == "hetzner"
Variants == {AWS, DigitalOcean, Hetzner}

tfStateFileName == "terraform.tfstate"

\* Scratch directories and run identifiers a test run may construct with.
TestPaths == {"/tmp/kubeone-1", "/tmp/kubeone-2"}
Identifiers == {"", "build-7"}

EnvNames == {"AWS_ACCESS_KEY_ID", "AWS_SECRET_ACCESS_KEY", "DIGITALOCEAN_TOKEN",
             "HCLOUD_TOKEN"}

\* Environments: every variable is empty (or unset) or set.
Envs == [EnvNames -> {"", "secret"}]

\* terraformDir of each variant (lines 202, 252, 301).
TerraformDir(v) ==
    CASE v = AWS -> "../../examples/terraform/aws/"
      [] v = DigitalOcean -> "../../examples/terraform/digitalocean/"
      [] v = Hetzner -> "../../examples/terraform/hetzner/"

\* New<Variant>Provisioner(testPath, identifier)
NewProvisioner(v) ==
    /\ pc = "idle"
    /\ \E t \in TestPaths, id \in Identifiers :
        p' = [variant |-> v, testPath |-> t, terraformDir |-> TerraformDir(v),
              idendifier |-> id]
    /\ pc' = "constructed"
    /\ UNCHANGED <<op, ctx, calls, rets, cascadeVars, concVars, env, cmds, outs, output, result>>

\* Lines 200-210
NewAWSProvisioner == NewProvisioner(AWS)
\* Lines 250-260
NewDOProvisioner == NewProvisioner(DigitalOcean)
\* Lines 299-309
NewHetznerProvisioner == NewProvisioner(Hetzner)

\* The credential check of each Provision (lines 214-216, 264-265, 313-314):
\* len(os.Getenv(name)) == 0 for one of the variant's variables.
CredentialsMissingBothOnly(v, e) ==
    CASE v = AWS -> e["AWS_ACCESS_KEY_ID"] = "" /\ e["AWS_SECRET_ACCESS_KEY"] = ""
      [] v = DigitalOcean -> e["DIGITALOCEAN_TOKEN"] = ""
      [] v = Hetzner -> e["HCLOUD_TOKEN"] = ""
CredentialsMissing(v, e) ==
    CASE v = AWS -> e["AWS_ACCESS_KEY_ID"] = "" \/ e["AWS_SECRET_ACCESS_KEY"] = ""
      [] v = DigitalOcean -> e["DIGITALOCEAN_TOKEN"] = ""
      [] v = Hetzner -> e["HCLOUD_TOKEN"] = ""

\* The error text of a failed credential check (lines 217, 266, 315).
MissingMsg(v) ==
    CASE v = AWS -> "unable to run the test suite, AWS_ACCESS_KEY_ID or AWS_SECRET_ACCESS_KEY environment variables cannot be empty"
      [] v = DigitalOcean -> "unable to run the test suite, DIGITALOCEAN_TOKEN environment variable cannot be empty"
      [] v = Hetzner -> "unable to run the test suite, HCLOUD_TOKEN environment variable cannot be empty"

\* Provision up to the call of p.terraform.initAndApply().
Provision(v) ==
    /\ pc = "constructed"
    /\ p.variant = v
    /\ op' = "Provision"
    /\ \E e \in Envs :
        /\ env' = e
        /\ IF CredentialsMissing(v, e) THEN Return(New(MissingMsg(v)))
           ELSE pc' = "init" /\ UNCHANGED result
    /\ UNCHANGED <<ctx, calls, rets, cascadeVars, concVars, p, cmds, outs, output>>

\* Lines 213-218
AWSProvision == Provision(AWS)
\* Lines 263-267
DOProvision == Provision(DigitalOcean)
\* Lines 312-316
HetznerProvision == Provision(Hetzner)

\* An argument is the sequence of the text pieces it is made of.
Lit(s) == <<s>>
\* fmt.Sprintf(prefix + "%s", v)
Sprintf(prefix, v) == <<prefix, v>>

\* Lines 344-347
InitCmdAlwaysKey(id) == <<Lit("init"), Sprintf("--backend-config=key=", id)>>
InitCmd(id) ==
    IF id # "" THEN <<Lit("init"), Sprintf("--backend-config=key=", id)>>
    ELSE <<Lit("init")>>
\* Line 354
ApplyCmd == <<Lit("apply"), Lit("-auto-approve")>>
\* Line 373
OutputCmd == <<Lit("output"), Sprintf("-state=", tfStateFileName), Lit("-json")>>
\* Line 364
DestroyCmd == <<Lit("destroy"), Lit("-auto-approve")>>
\* Lines 235, 284, 333
RmCmd(path) == <<Lit("-rf"), Lit(path)>>

\* One executeCommand(dir, name, args, nil) and the error it returned ("":
\* nil, exit status 0).
Command(dir, name, args, err) ==
    [dir |-> dir, name |-> name, args |-> args, err |-> err]

\* The text a failed stage's error starts with (lines 351, 356, 366, 375).
StageFailMsg(stage) ==
    CASE stage = "init" -> "terraform init command failed"
      [] stage = "apply" -> "terraform apply command failed"
      [] stage = "output" -> "generating tf json failed"
      [] stage = "destroy" -> "terraform destroy command failed"

\* Where a stage that ended with error e ("": exit status 0) goes on: a
\* failure returns, success runs the next stage.
AfterStageContinue(e, next) == next
AfterStage(e, next) == IF e # "" THEN "done" ELSE next

\* executeCommand for one terraform stage: the error is returned wrapped with
\* an empty output, otherwise the function goes on at `next`.
RunStage(stage, args, next) ==
    /\ \E e \in CmdErrors \cup {""}, out \in CmdOutputs :
        /\ cmds' = Append(cmds, Command(p.terraformDir, "terraform", args, e))
        /\ outs' = Append(outs, out)
        /\ pc' = AfterStage(e, next)
        /\ result' = IF e # "" THEN Wrap(e, StageFailMsg(stage)) ELSE result
    /\ UNCHANGED <<op, ctx, calls, rets, cascadeVars, concVars, p, env>>

\* Lines 344-352
tfInit ==
    /\ pc = "init"
    /\ RunStage("init", InitCmd(p.idendifier), "apply")
    /\ UNCHANGED output

\* Lines 354-357
tfApply ==
    /\ pc = "apply"
    /\ RunStage("apply", ApplyCmd, "output")
    /\ UNCHANGED output

\* Lines 372-379, and the return of Provision (lines 220-225)
getTFJson ==
    /\ pc = "output"
    /\ \/ \E e \in CmdErrors, tf \in CmdOutputs :
            /\ cmds' = Append(cmds, Command(p.terraformDir, "terraform", OutputCmd, e))
            /\ outs' = Append(outs, tf)
            /\ Return(Wrap(e, StageFailMsg("output")))
            /\ UNCHANGED output
       \/ \E tf \in CmdOutputs :
            /\ cmds' = Append(cmds, Command(p.terraformDir, "terraform", OutputCmd, ""))
            /\ outs' = Append(outs, tf)
            /\ Return(Nil)
            /\ output' = tf
    /\ UNCHANGED <<op, ctx, calls, rets, cascadeVars, concVars, p, env>>

\* Cleanup up to the call of p.terraform.destroy().
Cleanup(v) ==
    /\ pc = "constructed"
    /\ p.variant = v
    /\ op' = "Cleanup"
    /\ pc' = "destroy"
    /\ UNCHANGED <<ctx, calls, rets, cascadeVars, provVars, result>>

\* Line 229
AWSCleanup == Cleanup(AWS)
\* Line 278
DOCleanup == Cleanup(DigitalOcean)
\* Line 327
HetznerCleanup == Cleanup(Hetzner)

\* Lines 363-369 and 230-233: a failed destroy is returned at once.
destroy ==
    /\ pc = "destroy"
    /\ RunStage("destroy", DestroyCmd, "rm")
    /\ UNCHANGED output

\* Lines 235-240
rmTestPath ==
    /\ pc = "rm"
    /\ \/ \E e \in CmdErrors :
            /\ cmds' = Append(cmds, Command("", "rm", RmCmd(p.testPath), e))
            /\ Return(Bare(e))
       \/ /\ cmds' = Append(cmds, Command("", "rm", RmCmd(p.testPath), ""))
          /\ Return(Nil)
    /\ outs' = Append(outs, "")
    /\ UNCHANGED <<op, ctx, calls, rets, cascadeVars, concVars, p, env, output>>

-----------------------------------------------------------------------------
Next ==
    \/ DeleteAllMachines
    \/ ListMachineDeployments
    \/ DeleteMachineDeployment
    \/ ListMachineSets
    \/ DeleteMachineSet
    \/ ListMachines
    \/ DeleteMachine
    \/ PollTick
    \/ PollSkip
    \/ PollClose
    \/ Ensure
    \/ Deploy
    \/ DeployWebhookConfiguration
    \/ WaitReady
    \/ Sleep
    \/ WaitForWebhook
    \/ WaitForMachineController
    \/ NewAWSProvisioner
    \/ NewDOProvisioner
    \/ NewHetznerProvisioner
    \/ AWSProvision
    \/ DOProvision
    \/ HetznerProvision
    \/ tfInit
    \/ tfApply
    \/ getTFJson
    \/ AWSCleanup
    \/ DOCleanup
    \/ HetznerCleanup
    \/ destroy
    \/ rmTestPath

Spec == Init /\ [][Next]_vars

\* The operation's single thread of control goes on whenever a step is
\* possible: every collaborator call returns, the poller's ticker and timer
\* fire.
FairSpec == Spec /\ WF_vars(Next)

-----------------------------------------------------------------------------
(* Provisioner instances running side by side *)

\* Run identifiers (build numbers) concurrent test runs are given.
RunIdentifiers == (Identifiers \ {""}) \cup {"build-8"}

\* The resources a terraform subprocess of an instance reads or writes: the
\* directory executeCommand runs it in (line 349: p.terraformDir), the key of
\* the instance's state in the backend (line 346; "": the key the backend
\* configuration names), and for `output -state=terraform.tfstate` (line 373)
\* that file of the directory it runs in.
WorkDir(c) == <<"dir", c.dir, "">>
BackendKey(id) == <<"key", id, "">>
StateFile(c) == <<"file", c.dir, tfStateFileName>>
StageResources(c, id) ==
    {WorkDir(c), BackendKey(id)}
        \cup (IF c.args = OutputCmd THEN {StateFile(c)} ELSE {})

\* New<Variant>Provisioner(testPath, identifier) for instance i; the caller
\* gives concurrent instances distinct identifiers.
ConcNew(i) ==
    /\ insts[i].pc = "none"
    /\ \E v \in Variants, t \in TestPaths, id \in RunIdentifiers :
        /\ \A j \in Instances \ {i} :
              insts[j].pc = "none" \/ insts[j].idendifier # id
        /\ insts' = [insts EXCEPT ![i] =
                         [variant |-> v, testPath |-> t,
                          terraformDir |-> TerraformDir(v), idendifier |-> id,
                          pc |-> "init"]]
    /\ UNCHANGED touched

\* Instance i runs the terraform stage it stands at with arguments args; a
\* failed stage ends Provision (the instance may still be cleaned up).
ConcStage(i, stage, args, next) ==
    /\ insts[i].pc = stage
    /\ LET c == Command(insts[i].terraformDir, "terraform", args, "")
       IN  touched' = [touched EXCEPT ![i] =
                          @ \cup StageResources(c, insts[i].idendifier)]
    /\ \E failed \in BOOLEAN :
        insts' = [insts EXCEPT ![i].pc = IF failed THEN "destroy" ELSE next]

\* Lines 344-352
ConcInit(i) == ConcStage(i, "init", InitCmd(insts[i].idendifier), "apply")
\* Lines 354-357
ConcApply(i) == ConcStage(i, "apply", ApplyCmd, "output")
\* Lines 372-379
ConcOutput(i) == ConcStage(i, "output", OutputCmd, "destroy")
\* Lines 363-369
ConcDestroy(i) == ConcStage(i, "destroy", DestroyCmd, "end")

mainVars == <<op, pc, ctx, calls, rets, cascadeVars, p, env, cmds, outs, output,
              result>>

NextConc ==
    \/ \E i \in Instances : ConcNew(i) /\ UNCHANGED mainVars
    \/ \E i \in Instances : ConcInit(i) /\ UNCHANGED mainVars
    \/ \E i \in Instances : ConcApply(i) /\ UNCHANGED mainVars
    \/ \E i \in Instances : ConcOutput(i) /\ UNCHANGED mainVars
    \/ \E i \in Instances : ConcDestroy(i) /\ UNCHANGED mainVars

SpecConc == Init /\ [][NextConc]_vars

-----------------------------------------------------------------------------
(* Properties *)

Cascade == op = "DeleteAllMachines"
Returned == pc = "done"

IsDelete(c, k) == c[1] = "Delete" /\ c[2] = k
Deletes(k) == {i \in DOMAIN calls : IsDelete(calls[i], k)}

\* Every delete of kind a is issued before every delete of kind b.
DeletesBefore(a, b) == \A i \in Deletes(a), j \in Deletes(b) : i < j

\* The cascade's only client call was the MachineDeployment List.
OnlyMDListCalled ==
    /\ calls = <<ListCall("MachineDeployment")>>
    /\ pollLists = 0
    /\ ticks = 0

\* C1: in every run of DeleteAllMachines that returns success, every
\* MachineDeployment delete is issued before every MachineSet delete, and
\* every MachineSet delete before every Machine delete.
C1_DeleteOrder ==
    (Cascade /\ Returned /\ result.ok) =>
        /\ DeletesBefore("MachineDeployment", "MachineSet")
        /\ DeletesBefore("MachineSet", "Machine")
        /\ DeletesBefore("MachineDeployment", "Machine")

\* A successful cascade that deleted the largest number of objects of every
\* kind.
C1_Witness ==
    /\ Cascade /\ Returned /\ result.ok
    /\ \A k \in Kinds : Cardinality(Deletes(k)) = MaxObjs

Rms == {i \in DOMAIN cmds : cmds[i].name = "rm"}
Destroys == {i \in DOMAIN cmds : cmds[i].args[1] = Lit("destroy")}

\* C2: Cleanup always attempts the removal of the scratch directory, also
\* when destroy fails; destroy is attempted before the removal; when destroy
\* fails the returned error is the destroy failure.
C2_CleanupAlwaysRemoves ==
    (op = "Cleanup" /\ Returned) =>
        /\ Rms # {}
        /\ Destroys # {}
        /\ \A i \in Destroys, j \in Rms : i < j
        /\ \A i \in Destroys :
              cmds[i].err # "" =>
                  result = Wrap(cmds[i].err, "terraform destroy command failed")

\* The first Machine List of the cascade (line 122) answered with no item.
FirstMachineListEmpty ==
    /\ lists["Machine"].done
    /\ lists["Machine"].err = ""
    /\ lists["Machine"].items = <<>>

\* C3 as stated: with the feature enabled and the client initialized, an
\* empty first Machine list makes DeleteAllMachines return success without
\* sleeping: no poll interval elapses, the poll performs no waiting iteration.
\* (Read for a client whose every Machine list answers without error and
\* with no item, so that only the sleep is in question.)
C3_ReturnsWithoutSleeping ==
    (Cascade /\ FirstMachineListEmpty /\ Returned
        /\ lastPoll # "err" /\ nonZeroPolls = 0) =>
        /\ result = Nil
        /\ ticks = 0

\* C3 amended: after an empty first Machine list no Machine delete is issued
\* and the poll is entered; the poll waits one interval before each of its
\* Machine lists, the first included, so the call returns only after at least
\* one interval and one poll list, with success exactly when the last poll
\* list succeeded with zero Machines.
C3_ReturnsAfterOneInterval ==
    (Cascade /\ FirstMachineListEmpty) =>
        /\ Deletes("Machine") = {}
        /\ pc \in {"poll", "done"}
        /\ pollLists >= 1 => ticks >= 1
        /\ Returned =>
              /\ ticks >= 1
              /\ pollLists >= 1
              /\ result.ok <=> (lastPoll = "ok" /\ lastCount = 0)

\* An empty first Machine list, one interval waited, one empty poll list,
\* success.
C3_Witness ==
    /\ Cascade /\ FirstMachineListEmpty /\ Returned
    /\ result = Nil
    /\ ticks = 1
    /\ pollLists = 1

\* C4: when the MachineDeployment list fails with "kind not found",
\* DeleteAllMachines returns success and issues no further client call.
C4_KindNotFoundIsSuccess ==
    (Cascade /\ lists["MachineDeployment"].err = "NoKindMatch") =>
        /\ Returned
        /\ result = Nil
        /\ OnlyMDListCalled

C4_Witness ==
    /\ Cascade /\ Returned
    /\ lists["MachineDeployment"].err = "NoKindMatch"
    /\ Len(calls) = 1

\* C5: when the MachineDeployment list fails with a timeout or a server
\* timeout, DeleteAllMachines returns an error and issues no delete and no
\* further list.
C5_ListTimeoutIsFatal ==
    (Cascade /\ lists["MachineDeployment"].err \in {"Timeout", "ServerTimeout"}) =>
        /\ Returned
        /\ result = Wrap(lists["MachineDeployment"].err,
                         "unable to list machinedeployment objects")
        /\ OnlyMDListCalled

C5_Witness ==
    /\ Cascade /\ Returned
    /\ lists["MachineDeployment"].err = "ServerTimeout"
    /\ ~result.ok

\* C6: a failure of the MachineDeployment list is non-fatal only when it is
\* "kind not found"; every other cause makes DeleteAllMachines return an
\* error; a list failure of MachineSets or Machines is fatal whatever its
\* cause.
C6_OnlyKindNotFoundIsSwallowed ==
    (Cascade /\ Returned) =>
        /\ lists["MachineDeployment"].err \notin {"", "NoKindMatch"} => ~result.ok
        /\ lists["MachineSet"].err # "" => ~result.ok
        /\ lists["Machine"].err # "" => ~result.ok

\* C7: if every Machine list of the poll reports a non-zero count for the
\* whole poll window, DeleteAllMachines returns the timeout error, never
\* success.
C7_PollTimeout ==
    (Cascade /\ Returned /\ pollLists >= 1 /\ nonZeroPolls = pollLists) =>
        /\ result = Bare(ErrWaitTimeout)
        /\ ticks * PollInterval = PollTimeout

\* Every tick delivered, every poll list non-zero, to the end of the window.
C7_Witness ==
    /\ Cascade /\ Returned
    /\ pollLists = MaxTicks + 1
    /\ nonZeroPolls = pollLists
    /\ ~result.ok

\* C8: with the feature flag disabled, Ensure, WaitReady and
\* DeleteAllMachines return success at once with no call to any collaborator
\* and no settle delay, also when the cluster client is not initialized.
C8_DisabledIsNoOp ==
    (op \in {"Ensure", "WaitReady", "DeleteAllMachines"} /\ ~ctx.Deploy) =>
        /\ Returned
        /\ result = Nil
        /\ calls = <<>>
        /\ pollLists = 0
        /\ ticks = 0

C8_Witness ==
    /\ Cascade /\ Returned
    /\ ~ctx.Deploy
    /\ ctx.DynamicClient = "nil"
    /\ result = Nil

\* One of the credentials the Provisioner's variant requires is empty.
RequiredCredentialEmpty ==
    \/ p.variant = AWS /\ "" \in {env["AWS_ACCESS_KEY_ID"], env["AWS_SECRET_ACCESS_KEY"]}
    \/ p.variant = DigitalOcean /\ env["DIGITALOCEAN_TOKEN"] = ""
    \/ p.variant = Hetzner /\ env["HCLOUD_TOKEN"] = ""

\* C9: Provision with a required credential empty returns an error and an
\* empty output and invokes no subprocess.
C9_MissingCredential ==
    (op = "Provision" /\ RequiredCredentialEmpty) =>
        /\ Returned
        /\ result.ret /\ ~result.ok
        /\ output = ""
        /\ cmds = <<>>

\* AWS with the key id set and the secret empty.
C9_Witness ==
    /\ op = "Provision" /\ Returned
    /\ p.variant = AWS
    /\ env["AWS_ACCESS_KEY_ID"] # ""
    /\ env["AWS_SECRET_ACCESS_KEY"] = ""
    /\ ~result.ok

\* The error text that names the stage a terraform invocation belongs to.
ExpectedStageText(c) ==
    CASE c.args[1] = <<"init">> -> "terraform init command failed"
      [] c.args[1] = <<"apply">> -> "terraform apply command failed"
      [] c.args[1] = <<"output">> -> "generating tf json failed"
      [] OTHER -> "?"

\* C10: when the init, apply or output subprocess fails, Provision returns an
\* error that names the failed stage and wraps the subprocess's error,
\* returns an empty output, and invokes no later stage.
C10_StageFailureStops ==
    op = "Provision" =>
        \A i \in DOMAIN cmds :
            cmds[i].err # "" =>
                /\ i = Len(cmds)
                /\ Returned
                /\ result = Wrap(cmds[i].err, ExpectedStageText(cmds[i]))
                /\ output = ""

\* apply failed after a successful init.
C10_Witness ==
    /\ op = "Provision" /\ Returned
    /\ Len(cmds) = 2
    /\ cmds[1].err = ""
    /\ cmds[2].args = <<<<"apply">>, <<"-auto-approve">>>>
    /\ cmds[2].err # ""

\* C11: with the feature flag enabled and the cluster client not
\* initialized, DeleteAllMachines returns the not-initialized error at once,
\* with no list call and no delete call.
C11_NotInitialized ==
    (Cascade /\ ctx.Deploy /\ ctx.DynamicClient = "nil") =>
        /\ Returned
        /\ result = New("kubernetes client not initialized")
        /\ calls = <<>>
        /\ pollLists = 0
        /\ ticks = 0

C11_Witness ==
    /\ Cascade /\ Returned
    /\ ctx.Deploy
    /\ ctx.DynamicClient = "nil"
    /\ ~result.ok

\* Both instances are constructed, with distinct run identifiers.
DistinctIdentifiers ==
    /\ \A i \in Instances : insts[i].pc # "none"
    /\ insts[1].idendifier # insts[2].idendifier

\* C12: concurrent Provisioner instances created with distinct run
\* identifiers do not contend: no resource read or written by the init,
\* apply, output or destroy stage of one instance (backend state key, working
\* directory, local state file) is read or written by the other, also when
\* both instances are of the same provider variant.
C12_NoContention ==
    DistinctIdentifiers => touched[1] \cap touched[2] = {}

\* The error text of a failed delete of kind k.
ExpectedDeleteText(k) ==
    CASE k = "MachineDeployment" -> "unable to delete machinedeployment object"
      [] k = "MachineSet" -> "unable to delete machineset object"
      [] k = "Machine" -> "unable to delete machine object"

FailedDeletes == {i \in DOMAIN calls : calls[i][1] = "Delete" /\ rets[i] # ""}

\* C13: the first failed delete of any kind stops the cascade: the call
\* returns an error, and no delete, no list and no poll is issued after it (a
\* failed MachineDeployment delete means no MachineSet or Machine delete).
C13_DeleteFailureStops ==
    Cascade =>
        \A i \in FailedDeletes :
            /\ i = Len(calls)
            /\ Returned
            /\ result = Wrap(rets[i], ExpectedDeleteText(calls[i][2]))
            /\ pollLists = 0
            /\ ticks = 0
            /\ calls[i][2] = "MachineDeployment" =>
                  Deletes("MachineSet") \cup Deletes("Machine") = {}
            /\ calls[i][2] = "MachineSet" => Deletes("Machine") = {}

\* The second MachineSet delete fails after MachineDeployments were deleted.
C13_Witness ==
    /\ Cascade /\ Returned
    /\ Deletes("MachineDeployment") # {}
    /\ Cardinality(Deletes("MachineSet")) = 2
    /\ FailedDeletes # {}
    /\ calls[Len(calls)][2] = "MachineSet"

\* A step in which the poll condition ran (one more Machine list).
PollListStep == pollLists' = pollLists + 1

\* C14: in the poll, the first Machine list that fails ends the poll at once
\* with an error: no later list is made, even when time remains in the poll
\* window; another iteration follows only a successful list with count > 0.
C14_PollErrorIsFatal ==
    /\ [][(PollListStep /\ lastPoll' = "err") =>
            /\ pc' = "done"
            /\ result'.ret /\ ~result'.ok
            /\ result'.msg = "unable to list machine objects"
            /\ result'.cause \in ClientErrors]_vars
    /\ [][lastPoll = "err" => pollLists' = pollLists]_vars
    /\ [][(PollListStep /\ pc' = "poll") =>
            (lastPoll' = "ok" /\ lastCount' > 0)]_vars

\* The second poll list fails with most of the poll window left.
C14_Witness ==
    /\ Cascade /\ Returned
    /\ lastPoll = "err"
    /\ pollLists = 2
    /\ ticks = 2
    /\ ~result.ok

\* The fixed working directory of the Provisioner's variant.
ExpectedDir ==
    CASE p.variant = "aws" -> "../../examples/terraform/aws/"
      [] p.variant = "digitalocean" -> "../../examples/terraform/digitalocean/"
      [] p.variant = "hetzner" -> "../../examples/terraform/hetzner/"
      [] OTHER -> "?"

\* C15: a successful Provision invokes exactly three subprocesses, in this
\* order and each once, in the provider's fixed working directory: init,
\* apply -auto-approve, output -state=terraform.tfstate -json; the init
\* arguments hold --backend-config=key=<identifier> if and only if the run
\* identifier is non-empty; the returned string is the output of the output
\* command.
C15_SuccessfulProvision ==
    (op = "Provision" /\ Returned /\ result.ok) =>
        /\ Len(cmds) = 3
        /\ \A i \in 1..3 :
              /\ cmds[i].dir = ExpectedDir
              /\ cmds[i].name = "terraform"
              /\ cmds[i].err = ""
        /\ cmds[1].args =
              IF p.idendifier # ""
              THEN <<<<"init">>, <<"--backend-config=key=", p.idendifier>>>>
              ELSE <<<<"init">>>>
        /\ cmds[2].args = <<<<"apply">>, <<"-auto-approve">>>>
        /\ cmds[3].args =
              <<<<"output">>, <<"-state=", "terraform.tfstate">>, <<"-json">>>>
        /\ output = outs[3]

\* A successful Provision without run identifier whose init and apply printed
\* something else than the output command.
C15_Witness ==
    /\ op = "Provision" /\ Returned /\ result.ok
    /\ p.idendifier = ""
    /\ Len(cmds) = 3
    /\ outs[1] # outs[3]
    /\ outs[2] # outs[3]

\* The calls issued so far are the first calls of `full`, in its order.
IsPrefixOf(full) ==
    /\ Len(calls) <= Len(full)
    /\ \A i \in DOMAIN calls : calls[i] = full[i]

NoCallFailed == \A i \in DOMAIN rets : rets[i] = ""

\* C16: with the feature flag enabled, WaitReady runs the settle delay, then
\* the webhook readiness wait, then the controller readiness wait; if the
\* webhook wait fails, WaitReady returns that failure and the controller wait
\* is never invoked; WaitReady returns success only if both waits succeeded.
C16_WaitReadySequence ==
    (op = "WaitReady" /\ ctx.Deploy) =>
        /\ IsPrefixOf(<< <<"Sleep", "", 10>>, <<"WaitForWebhook", "", 0>>,
                         <<"WaitForMachineController", "", 0>> >>)
        /\ (Len(calls) >= 2 /\ rets[2] # "") =>
              /\ Len(calls) = 2
              /\ Returned
              /\ result = Wrap(rets[2], "machine-controller-webhook did not come up")
        /\ (Len(calls) = 3 /\ rets[3] # "") =>
              /\ Returned
              /\ result = Wrap(rets[3], "machine-controller did not come up")
        /\ (Returned /\ result.ok) => (Len(calls) = 3 /\ NoCallFailed)

\* The webhook wait failed after the settle delay.
C16_Witness ==
    /\ op = "WaitReady" /\ Returned
    /\ Len(calls) = 2
    /\ rets[2] # ""
    /\ ~result.ok

\* C17: with the feature flag enabled, Ensure invokes the deploy collaborator
\* and then the webhook-deploy collaborator; if deploy fails, Ensure returns
\* an error and webhook-deploy is never invoked; Ensure returns success only
\* if both succeeded.
C17_EnsureSequence ==
    (op = "Ensure" /\ ctx.Deploy) =>
        /\ IsPrefixOf(<< <<"Deploy", "", 0>>,
                         <<"DeployWebhookConfiguration", "", 0>> >>)
        /\ (Len(calls) >= 1 /\ rets[1] # "") =>
              /\ Len(calls) = 1
              /\ Returned
              /\ result = Wrap(rets[1], "failed to deploy machine-controller")
        /\ (Len(calls) = 2 /\ rets[2] # "") =>
              /\ Returned
              /\ result = Wrap(rets[2],
                      "failed to deploy machine-controller webhook configuration")
        /\ (Returned /\ result.ok) => (Len(calls) = 2 /\ NoCallFailed)

\* Deploy failed.
C17_Witness ==
    /\ op = "Ensure" /\ Returned
    /\ Len(calls) = 1
    /\ rets[1] # ""
    /\ ~result.ok

\* C18: whenever DeleteAllMachines returns success after a successful
\* MachineDeployment list, the last Machine list it made succeeded and
\* returned zero Machines; it never returns success while the last observed
\* Machine count is non-zero.
C18_SuccessMeansZeroMachines ==
    (Cascade /\ Returned /\ result.ok
        /\ lists["MachineDeployment"].done /\ lists["MachineDeployment"].err = "") =>
        /\ pollLists >= 1
        /\ lastPoll = "ok"
        /\ lastCount = 0

\* Success on the condition's last run, after the timeout closed the channel
\* and earlier poll lists had reported Machines.
C18_Witness ==
    /\ Cascade /\ Returned /\ result.ok
    /\ closed
    /\ nonZeroPolls >= 1
    /\ lastCount = 0

\* C19: every invocation of DeleteAllMachines terminates whatever the cluster
\* client answers (each client call returning): the poll makes at most
\* timeout/interval + 1 = 37 Machine list calls and then returns success or
\* an error.
C19_Terminates ==
    /\ [][pollLists' <= 37]_vars
    /\ Cascade ~> (Returned /\ result.ret)

\* The poll ran the condition at every tick and once more at the timeout.
C19_Witness ==
    /\ Cascade /\ Returned
    /\ pollLists = 37
    /\ closed

ListsOf(k) == {i \in DOMAIN calls : calls[i][1] = "List" /\ calls[i][2] = k}
ListedObjects(k) == {lists[k].items[n] : n \in DOMAIN lists[k].items}
DeletedObjects(k) == {calls[i][3] : i \in Deletes(k)}

\* The poll phase was reached.
PollReached == pc = "poll" \/ pollLists >= 1

\* The List of kind b is taken only once every listed object of kind a had
\* its delete issued.
ListedAfterDeletesOf(a, b) ==
    \A j \in ListsOf(b) :
        /\ \A i \in Deletes(a) : i < j
        /\ DeletedObjects(a) = ListedObjects(a)

\* C20: in one run of DeleteAllMachines, before the poll each kind is listed
\* exactly once, the MachineSet list is taken only after all
\* MachineDeployment deletes were issued and the Machine list only after all
\* MachineSet deletes, and a delete is issued exactly once for each object
\* returned by that kind's list and for no other object.
C20_ListOnceDeleteOnce ==
    Cascade =>
        /\ \A k \in Kinds : Cardinality(ListsOf(k)) <= 1
        /\ ListedAfterDeletesOf("MachineDeployment", "MachineSet")
        /\ ListedAfterDeletesOf("MachineSet", "Machine")
        /\ \A k \in Kinds : \A i \in Deletes(k) :
              /\ \E j \in ListsOf(k) : j < i
              /\ calls[i][3] \in ListedObjects(k)
              /\ \A j \in Deletes(k) : calls[j][3] = calls[i][3] => j = i
        /\ PollReached =>
              \A k \in Kinds :
                  /\ Cardinality(ListsOf(k)) = 1
                  /\ DeletedObjects(k) = ListedObjects(k)
                  /\ Cardinality(Deletes(k)) = Len(lists[k].items)

\* The poll is entered after lists of different lengths were deleted.
C20_Witness ==
    /\ Cascade /\ pc = "poll" /\ pollLists = 0
    /\ Len(lists["MachineDeployment"].items) = 1
    /\ Len(lists["MachineSet"].items) = 2
    /\ Len(lists["Machine"].items) = 2
    /\ Len(calls) = 8

====
